---- MODULE Spec2Model ----
(***************************************************************************)
(* Model of native-runtime/support/src/lib.rs: the free functions storage, *)
(* read_storage, storage_into, set_storage, chain_id that reach the        *)
(* Externalities installed by with_externalities through the thread-local  *)
(* slot declared by environmental!(ext).                                   *)
(***************************************************************************)
EXTENDS Integers, Sequences, FiniteSets, TLC

\* ---------------------------------------------------------------- bounds
MaxLen == 2          \* longest byte sequence (value, buffer, size_of::<T>())
MaxEntries == 2      \* entries held by all the stores together

Threads == {"t1", "t2"}
Main == "t1"                       \* the thread of tests::storage_works
Caps == {"A", "B"}                 \* Externalities objects (&mut ext)
Keys == {"hello", "foo"}
Results == {TRUE, FALSE}           \* values R the closure f may return

\* the values written: the prefixes of the bytes 1, 2, .., MaxLen, and a
\* one-byte value that differs from the one-byte prefix
Pattern == [i \in 1..MaxLen |-> i]
Bytes == {SubSeq(Pattern, 1, j) : j \in 0..MaxLen} \cup {<<MaxLen>>}
\* the buffers handed to read_storage: zeroed, of every length
Buffers == {[i \in 1..n |-> 0] : n \in 0..MaxLen}
Sizes == 0..MaxLen                 \* size_of::<T>() of the decoded types
\* what the memory of an uninitialized T of the given size may hold
Uninitialized(size) == {[i \in 1..size |-> b] : b \in {0, MaxLen}}

\* the maps the test assigns to t.storage between two scopes: map![] and
\* the maps of one entry
Maps == {[x \in {} |-> <<>>]} \cup {[x \in {k} |-> v] : k \in Keys, v \in Bytes}

\* arguments of ed25519_verify: a signature is the message and key it signs
Msgs == {"msg"}
Pubkeys == {"pk1", "pk2"}
Sigs == Msgs \X Pubkeys

Empty == "empty"                   \* the slot holds no capability
NoObs == [op |-> "none"]

\* ------------------------------------------------------------- state
VARIABLES
  store,      \* store[c]: the HashMap of capability c (partial map Keys -> Bytes)
  slot,       \* slot[t]: content of thread t's environmental slot
  stack,      \* stack[t]: the with_externalities calls of t that have not exited
  panicking,  \* panicking[t]: a panic is propagating on t
  obs         \* the last call made and what it returned to its caller

vars == <<store, slot, stack, panicking, obs>>

\* ------------------------------------------------------------- helpers
EmptyMap == [k \in {} |-> <<>>]

map_insert(m, k, v) == [x \in (DOMAIN m) \cup {k} |-> IF x = k THEN v ELSE m[x]]

min(a, b) == IF a < b THEN a ELSE b

\* value_out[0..written].copy_from_slice(&value[0..written])
copy_from_slice(dst, src, written) ==
  [i \in 1..Len(dst) |-> IF i <= written THEN src[i] ELSE dst[i]]

\* TestExternalities::storage: the stored bytes, or &[] for an absent key
\* (self is the HashMap of the capability)
TestExternalities_storage(self, k) ==
  IF k \in DOMAIN self THEN self[k] ELSE <<>>

\* mutant: entry(key).or_insert(value), which keeps a value already stored
TestExternalities_set_storage_or_insert(self, k, v) ==
  IF k \in DOMAIN self THEN self ELSE map_insert(self, k, v)

\* TestExternalities::set_storage: the HashMap after the insert
TestExternalities_set_storage(self, k, v) == map_insert(self, k, v)

\* TestExternalities::chain_id
TestExternalities_chain_id(self) == 42

\* Externalities::storage -> Result<&[u8], Error>; e is what this lookup
\* reports: "Ok", or "Err" for Err(NoError)
Lookups == {"Ok", "Err"}
Outcomes == Lookups \cup {"none"}
ext_storage(self, k, e) ==
  IF e = "Err" THEN <<"Err">> ELSE <<"Ok", TestExternalities_storage(self, k)>>

\* Option<T>
None == <<"None">>
Some(x) == <<"Some", x>>
is_some(o) == o[1] = "Some"
unwrap_or(o, d) == LET x == o IN IF is_some(x) THEN x[2] ELSE d

\* mutant: the slot is one static shared by every thread
current_shared(t) == slot["t1"]

\* ext::with(|ext| ...): the capability the closure is run on, if any
current(t) == slot[t]

\* the capability of the innermost with_externalities call of t still running
InnermostCap(t) == IF stack[t] = <<>> THEN Empty ELSE Head(stack[t]).cap

\* capabilities mutably borrowed by a running with_externalities call
Borrowed == UNION {{stack[t][i].cap : i \in 1..Len(stack[t])} : t \in Threads}

\* number of entries of all the stores
Entries == Cardinality({ck \in Caps \X Keys : ck[2] \in DOMAIN store[ck[1]]})

\* ext::using(ext, f), on entry: the slots after the swap that puts c in t's
using_install(sl, t, c) == [sl EXCEPT ![t] = c]

\* ext::using(ext, f), on exit (return or unwind): the slots after the guard
\* has swapped the previous content back
using_restore(sl, t, original) == [sl EXCEPT ![t] = original]

\* ext::with(f): Some(f(ext)) on the capability in the slot, None when the
\* slot is empty; ext_in is the capability f is given, if any
ext_in(cur, st) == IF cur = Empty THEN None ELSE Some(st[cur])

\* ------------------------------------------------- results of the accessors
\* mutant: storage answers from the bytes it returned for the key last time
storage_ret_cached(ext, k, e) ==
  IF obs.op = "storage" /\ obs.key = k
  THEN obs.ret
  ELSE LET with == IF ~is_some(ext) THEN None
                   ELSE LET r == ext_storage(ext[2], k, e)
                        IN Some(IF r[1] = "Ok" THEN Some(r[2]) ELSE None)
       IN unwrap_or(unwrap_or(with, None), <<>>)

\* mutant: the default of storage is vec![0] instead of vec![]
storage_ret_nonempty_default(ext, k, e) ==
  LET with == IF ~is_some(ext) THEN None
              ELSE LET r == ext_storage(ext[2], k, e)
                   IN Some(IF r[1] = "Ok" THEN Some(r[2]) ELSE None)
  IN unwrap_or(unwrap_or(with, None), <<0>>)

\* storage(key): ext::with(|ext| ext.storage(key).ok().map(to_vec))
\*                 .unwrap_or(None).unwrap_or_else(|| vec![])
storage_ret(ext, k, e) ==
  LET with == IF ~is_some(ext) THEN None
              ELSE LET r == ext_storage(ext[2], k, e)
                   IN Some(IF r[1] = "Ok" THEN Some(r[2]) ELSE None)
  IN unwrap_or(unwrap_or(with, None), <<>>)

\* mutant: a failed lookup is reported as a value filling the buffer
read_storage_ret_err_full(ext, k, value_out, e) ==
  LET with == IF ~is_some(ext) THEN None
              ELSE LET r == ext_storage(ext[2], k, e)
                   IN IF r[1] = "Ok"
                      THEN LET value == r[2]
                               written == min(Len(value), Len(value_out))
                           IN Some(<<Len(value),
                                     copy_from_slice(value_out, value, written)>>)
                      ELSE Some(<<Len(value_out), value_out>>)
  IN unwrap_or(with, <<0, value_out>>)

\* mutant: read_storage returns the number of bytes written
read_storage_ret_written(ext, k, value_out, e) ==
  LET with == IF ~is_some(ext) THEN None
              ELSE LET r == ext_storage(ext[2], k, e)
                   IN IF r[1] = "Ok"
                      THEN LET value == r[2]
                               written == min(Len(value), Len(value_out))
                           IN Some(<<written,
                                     copy_from_slice(value_out, value, written)>>)
                      ELSE Some(<<0, value_out>>)
  IN unwrap_or(with, <<0, value_out>>)

\* read_storage(key, value_out): <<returned usize, value_out afterwards>>
read_storage_ret(ext, k, value_out, e) ==
  LET with == IF ~is_some(ext) THEN None
              ELSE LET r == ext_storage(ext[2], k, e)
                   IN IF r[1] = "Ok"
                      THEN LET value == r[2]
                               written == min(Len(value), Len(value_out))
                           IN Some(<<Len(value),
                                     copy_from_slice(value_out, value, written)>>)
                      ELSE Some(<<0, value_out>>)
  IN unwrap_or(with, <<0, value_out>>)

\* mutant: storage_into accepts a value longer than T and decodes its start
storage_into_ret_prefix(ext, k, size, result, e) ==
  LET with == IF ~is_some(ext) THEN None
              ELSE LET r == ext_storage(ext[2], k, e)
                   IN IF r[1] = "Ok" /\ Len(r[2]) >= size
                      THEN Some(Some(copy_from_slice(result, r[2], size)))
                      ELSE Some(None)
  IN unwrap_or(with, None)

\* mutant: storage_into takes a failed lookup for an empty value
storage_into_ret_err_as_empty(ext, k, size, result, e) ==
  LET with == IF ~is_some(ext) THEN None
              ELSE LET r == ext_storage(ext[2], k, e)
                       value == IF r[1] = "Ok" THEN r[2] ELSE <<>>
                   IN IF Len(value) = size
                      THEN Some(Some(copy_from_slice(result, value, size)))
                      ELSE Some(None)
  IN unwrap_or(with, None)

\* storage_into::<T>(key) with size_of::<T>() = size; result is the
\* uninitialized T after the copy of the value over its bytes
storage_into_ret(ext, k, size, result, e) ==
  LET with == IF ~is_some(ext) THEN None
              ELSE LET r == ext_storage(ext[2], k, e)
                   IN IF r[1] = "Ok" /\ Len(r[2]) = size
                      THEN Some(Some(copy_from_slice(result, r[2], size)))
                      ELSE Some(None)
  IN unwrap_or(with, None)

\* mutant: chain_id falls back to the test chain's identifier
chain_id_ret_default_42(ext) ==
  LET with == IF ~is_some(ext) THEN None
              ELSE Some(TestExternalities_chain_id(ext[2]))
  IN unwrap_or(with, 42)

\* chain_id()
chain_id_ret(ext) ==
  LET with == IF ~is_some(ext) THEN None
              ELSE Some(TestExternalities_chain_id(ext[2]))
  IN unwrap_or(with, 0)

\* ed25519::verify(sig, msg, pubkey), the primitive of the primitives crate
ed25519_verify_primitive(sig, msg, pubkey) == sig = <<msg, pubkey>>

\* mutant: signatures are only accepted while a capability is installed
ed25519_verify_ret_scoped(sig, msg, pubkey) ==
  /\ \E t \in DOMAIN slot : slot[t] # "empty"
  /\ ed25519_verify_primitive(sig, msg, pubkey)

\* ed25519_verify(sig, msg, pubkey)
ed25519_verify_ret(sig, msg, pubkey) ==
  ed25519_verify_primitive(sig, msg, pubkey)

\* ------------------------------------------------------------- Init
Init ==
  /\ store = [c \in Caps |-> EmptyMap]
  /\ slot = [t \in Threads |-> Empty]
  /\ stack = [t \in Threads |-> <<>>]
  /\ panicking = [t \in Threads |-> FALSE]
  /\ obs = NoObs

\* ------------------------------------------------------------- actions
\* with_externalities(ext, f): ext::using installs ext and calls f
with_externalities(t, c) ==
  /\ ~panicking[t]
  /\ c \notin Borrowed
  /\ slot' = using_install(slot, t, c)
  /\ stack' = [stack EXCEPT ![t] =
                 <<[cap |-> c, original |-> slot[t], pre |-> current(t),
                    fcalls |-> 1]>> \o @]
  /\ UNCHANGED <<store, panicking, obs>>

\* mutant: the slot is left as f saw it when f returns
with_externalities_return_no_restore(t, r) ==
  /\ ~panicking[t]
  /\ stack[t] # <<>>
  /\ LET fr == Head(stack[t]) IN
       /\ stack' = [stack EXCEPT ![t] = Tail(@)]
       /\ obs' = [op |-> "with_externalities", t |-> t, cap |-> fr.cap,
                  panicked |-> FALSE, f_returned |-> r, returned |-> r,
                  fcalls |-> fr.fcalls, pre |-> fr.pre, post |-> slot[t]]
  /\ UNCHANGED <<store, slot, panicking>>

\* mutant: the value of f is dropped and a fixed one returned
with_externalities_return_fixed(t, r) ==
  /\ ~panicking[t]
  /\ stack[t] # <<>>
  /\ LET fr == Head(stack[t]) IN
       /\ slot' = using_restore(slot, t, fr.original)
       /\ stack' = [stack EXCEPT ![t] = Tail(@)]
       /\ obs' = [op |-> "with_externalities", t |-> t, cap |-> fr.cap,
                  panicked |-> FALSE, f_returned |-> r, returned |-> TRUE,
                  fcalls |-> fr.fcalls, pre |-> fr.pre, post |-> slot'[t]]
  /\ UNCHANGED <<store, panicking>>

\* f returns r: the guard of ext::using restores the slot, r is forwarded
with_externalities_return(t, r) ==
  /\ ~panicking[t]
  /\ stack[t] # <<>>
  /\ LET fr == Head(stack[t]) IN
       /\ slot' = using_restore(slot, t, fr.original)
       /\ stack' = [stack EXCEPT ![t] = Tail(@)]
       /\ obs' = [op |-> "with_externalities", t |-> t, cap |-> fr.cap,
                  panicked |-> FALSE, f_returned |-> r, returned |-> r,
                  fcalls |-> fr.fcalls, pre |-> fr.pre, post |-> slot'[t]]
  /\ UNCHANGED <<store, panicking>>

\* mutant: the slot is restored after f() returns only, not by a guard
with_externalities_unwind_no_guard(t) ==
  /\ stack[t] # <<>>
  /\ LET fr == Head(stack[t]) IN
       /\ stack' = [stack EXCEPT ![t] = Tail(@)]
       /\ obs' = [op |-> "with_externalities", t |-> t, cap |-> fr.cap,
                  panicked |-> TRUE, fcalls |-> fr.fcalls, pre |-> fr.pre,
                  post |-> slot[t]]
  /\ panicking' = [panicking EXCEPT ![t] = TRUE]
  /\ UNCHANGED <<store, slot>>

\* f panics, or a panic of a nested call reaches this call: the unwinding
\* drops the guard of ext::using, which restores the slot
with_externalities_unwind(t) ==
  /\ stack[t] # <<>>
  /\ LET fr == Head(stack[t]) IN
       /\ slot' = using_restore(slot, t, fr.original)
       /\ stack' = [stack EXCEPT ![t] = Tail(@)]
       /\ obs' = [op |-> "with_externalities", t |-> t, cap |-> fr.cap,
                  panicked |-> TRUE, fcalls |-> fr.fcalls, pre |-> fr.pre,
                  post |-> slot'[t]]
  /\ panicking' = [panicking EXCEPT ![t] = TRUE]
  /\ UNCHANGED <<store>>

\* the panic is caught (catch_unwind, or the test harness at the thread's top)
catch_unwind(t) ==
  /\ panicking[t]
  /\ panicking' = [panicking EXCEPT ![t] = FALSE]
  /\ UNCHANGED <<store, slot, stack, obs>>

\* the lookups a call can meet: none is made while the slot is empty
lookups(t) == IF current(t) = Empty THEN {"none"} ELSE Lookups

\* the call is the first one since the store of the capability it reaches
\* was assigned between two scopes
assigned_before(t) == obs.op = "assign" /\ obs.cap = current(t)

storage(t, k, e) ==
  /\ ~panicking[t]
  /\ e \in lookups(t)
  /\ obs' = [op |-> "storage", t |-> t, key |-> k, via |-> current(t),
             scope |-> InnermostCap(t), lookup |-> e,
             after_assign |-> assigned_before(t),
             ret |-> storage_ret(ext_in(current(t), store), k, e)]
  /\ UNCHANGED <<store, slot, stack, panicking>>

read_storage(t, k, value_out, e) ==
  /\ ~panicking[t]
  /\ e \in lookups(t)
  /\ LET r == read_storage_ret(ext_in(current(t), store), k, value_out, e) IN
       obs' = [op |-> "read_storage", t |-> t, key |-> k, via |-> current(t),
               scope |-> InnermostCap(t), lookup |-> e, buf |-> value_out,
               ret |-> r[1], value_out |-> r[2]]
  /\ UNCHANGED <<store, slot, stack, panicking>>

storage_into(t, k, size, e) ==
  /\ ~panicking[t]
  /\ e \in lookups(t)
  /\ \E result \in Uninitialized(size) :
       obs' = [op |-> "storage_into", t |-> t, key |-> k, via |-> current(t),
               scope |-> InnermostCap(t), lookup |-> e, size |-> size,
               ret |-> storage_into_ret(ext_in(current(t), store), k, size,
                                       result, e)]
  /\ UNCHANGED <<store, slot, stack, panicking>>

\* the Vec the caller of set_storage(k, ..) still holds from a call of
\* storage(k) made just before: storage returned it by s.to_vec()
kept_vec(t, k) ==
  IF obs.op = "storage" /\ obs.t = t /\ obs.key = k THEN Some(obs.ret) ELSE None

\* mutant: set_storage expects a capability and panics without one
set_storage_expect(t, k, v) ==
  /\ ~panicking[t]
  /\ IF current(t) = Empty
     THEN /\ panicking' = [panicking EXCEPT ![t] = TRUE]
          /\ UNCHANGED store
     ELSE /\ k \in DOMAIN store[current(t)] \/ Entries < MaxEntries
          /\ store' = [store EXCEPT ![current(t)] =
                          TestExternalities_set_storage(@, k, v)]
          /\ UNCHANGED panicking
  /\ obs' = [op |-> "set_storage", t |-> t, key |-> k, value |-> v,
             via |-> current(t), scope |-> InnermostCap(t),
             kept |-> kept_vec(t, k)]
  /\ UNCHANGED <<slot, stack>>

\* mutant: the write goes to the capability of the outermost running call
set_storage_outermost(t, k, v) ==
  /\ ~panicking[t]
  /\ IF current(t) = Empty
     THEN UNCHANGED store
     ELSE LET c == stack[t][Len(stack[t])].cap IN
          /\ k \in DOMAIN store[c] \/ Entries < MaxEntries
          /\ store' = [store EXCEPT ![c] = TestExternalities_set_storage(@, k, v)]
  /\ obs' = [op |-> "set_storage", t |-> t, key |-> k, value |-> v,
             via |-> current(t), scope |-> InnermostCap(t),
             kept |-> kept_vec(t, k)]
  /\ UNCHANGED <<slot, stack, panicking>>

set_storage(t, k, v) ==
  /\ ~panicking[t]
  /\ IF current(t) = Empty
     THEN UNCHANGED store
     ELSE /\ k \in DOMAIN store[current(t)] \/ Entries < MaxEntries
          /\ store' = [store EXCEPT ![current(t)] =
                          TestExternalities_set_storage(@, k, v)]
  /\ obs' = [op |-> "set_storage", t |-> t, key |-> k, value |-> v,
             via |-> current(t), scope |-> InnermostCap(t),
             kept |-> kept_vec(t, k)]
  /\ UNCHANGED <<slot, stack, panicking>>

\* mutant: ext::with takes the capability out of the slot and leaves it out
chain_id_takes_slot(t) ==
  /\ ~panicking[t]
  /\ obs' = [op |-> "chain_id", t |-> t, via |-> current(t),
             scope |-> InnermostCap(t),
             ret |-> chain_id_ret(ext_in(current(t), store))]
  /\ slot' = [slot EXCEPT ![t] = Empty]
  /\ UNCHANGED <<store, stack, panicking>>

chain_id(t) ==
  /\ ~panicking[t]
  /\ obs' = [op |-> "chain_id", t |-> t, via |-> current(t),
             scope |-> InnermostCap(t), ret |-> chain_id_ret(ext_in(current(t), store))]
  /\ UNCHANGED <<store, slot, stack, panicking>>

\* ed25519_verify(sig, msg, pubkey)
ed25519_verify(t, sig, msg, pubkey) ==
  /\ ~panicking[t]
  /\ obs' = [op |-> "ed25519_verify", t |-> t, sig |-> sig, msg |-> msg,
             pubkey |-> pubkey, scope |-> InnermostCap(t),
             ret |-> ed25519_verify_ret(sig, msg, pubkey)]
  /\ UNCHANGED <<store, slot, stack, panicking>>

\* t.storage = map![..]: the test replaces the store of a capability that no
\* running with_externalities call borrows
assign_storage(t, c, m) ==
  /\ ~panicking[t]
  /\ c \notin Borrowed
  /\ Entries - Cardinality(DOMAIN store[c]) + Cardinality(DOMAIN m) <= MaxEntries
  /\ store' = [store EXCEPT ![c] = m]
  /\ obs' = [op |-> "assign", t |-> t, cap |-> c]
  /\ UNCHANGED <<slot, stack, panicking>>

\* the calls thread t can make
ThreadNext(t) ==
  \/ \E c \in Caps : with_externalities(t, c)
  \/ \E r \in Results : with_externalities_return(t, r)
  \/ with_externalities_unwind(t)
  \/ catch_unwind(t)
  \/ \E k \in Keys, e \in Outcomes : storage(t, k, e)
  \/ \E k \in Keys, b \in Buffers, e \in Outcomes : read_storage(t, k, b, e)
  \/ \E k \in Keys, n \in Sizes, e \in Outcomes : storage_into(t, k, n, e)
  \/ \E k \in Keys, v \in Bytes : set_storage(t, k, v)
  \/ chain_id(t)
  \/ \E sig \in Sigs, msg \in Msgs, pubkey \in Pubkeys :
       ed25519_verify(t, sig, msg, pubkey)
  \/ \E c \in Caps, m \in Maps : assign_storage(t, c, m)

\* tests::storage_works: every call is made by the one test thread
Next == ThreadNext(Main)

Spec == Init /\ [][Next]_vars

\* the calls of the slot's users that the threads interleave: scopes entered
\* and left, storage, set_storage and chain_id
ThreadNextMT(t) ==
  \/ \E c \in Caps : with_externalities(t, c)
  \/ \E r \in Results : with_externalities_return(t, r)
  \/ with_externalities_unwind(t)
  \/ catch_unwind(t)
  \/ \E k \in Keys, e \in Outcomes : storage(t, k, e)
  \/ \E k \in Keys, v \in Bytes : set_storage(t, k, v)
  \/ chain_id(t)

\* any interleaving of the threads' calls
NextMT == \E t \in Threads : ThreadNextMT(t)

SpecMT == Init /\ [][NextMT]_vars

\* ------------------------------------------------------------- claims
ReadOps == {"storage", "read_storage", "storage_into", "chain_id"}
AccessorOps == ReadOps \cup {"set_storage"}

\* C1: at every point of any nesting of with_externalities calls on a thread,
\* the capability the accessors reach is the one installed by the innermost
\* call that has not yet exited (none when every call has exited).
C1_InnermostIsActive ==
  /\ \A t \in Threads : current(t) = InnermostCap(t)
  /\ obs.op \in AccessorOps => obs.via = obs.scope

\* an inner scope has just exited and the outer capability is active again
C1_Witness ==
  /\ obs.op = "with_externalities" /\ ~obs.panicked
  /\ stack[obs.t] # <<>>
  /\ current(obs.t) = Head(stack[obs.t]).cap
  /\ current(obs.t) # obs.cap

\* C2: when the closure given to with_externalities panics, the slot holds,
\* once the panic has left with_externalities, exactly what it held before
\* the call (empty, or the outer capability).
C2_RestoredOnUnwind ==
  /\ (obs.op = "with_externalities" /\ obs.panicked) => obs.post = obs.pre
  /\ \A t \in Threads : panicking[t] => current(t) = InnermostCap(t)

\* a panic has left a nested call: the outer capability is back in the slot
C2_Witness ==
  /\ obs.op = "with_externalities" /\ obs.panicked
  /\ panicking[obs.t]
  /\ obs.pre \in Caps /\ current(obs.t) = obs.pre

\* C3: with no scope installed, storage(k) returns the empty byte sequence
\* for every key k and chain_id() returns 0.
C3_DefaultsWithoutScope ==
  /\ (obs.op = "storage" /\ obs.scope = Empty) => obs.ret = <<>>
  /\ (obs.op = "chain_id" /\ obs.scope = Empty) => obs.ret = 0

\* storage called outside every scope while a store holds entries
C3_Witness ==
  /\ obs.op = "storage" /\ obs.scope = Empty /\ obs.ret = <<>>
  /\ \E c \in Caps : obs.key \in DOMAIN store[c]

\* the step is a call op(..) made by thread t (obs records every call)
Called(op, t) == obs' # obs /\ obs'.op = op /\ obs'.t = t

\* C4: with no scope installed, set_storage(k, v) is a silent no-op: it does
\* not panic, the slot stays empty and no capability's store changes (so a
\* capability installed afterwards does not see the write).
C4_DroppedWrite ==
  [][\A t \in Threads :
       (stack[t] = <<>> /\ Called("set_storage", t)) =>
          /\ store' = store
          /\ slot' = slot /\ slot'[t] = Empty
          /\ stack' = stack
          /\ panicking' = panicking]_vars

\* a non-empty value was written outside every scope
C4_Witness ==
  /\ obs.op = "set_storage" /\ obs.scope = Empty /\ obs.value # <<>>
  /\ \A c \in Caps : obs.key \notin DOMAIN store[c]

\* C5: within one active scope, set_storage(k, v) makes storage(k) return
\* exactly v, and storage(k) keeps returning it until the next write to k
\* (which makes it return the value then written).  What storage returns
\* is a function of the slot and the stores, so only the steps that change
\* one of them have to be compared.
C5_RoundTrip ==
  [][\A t \in Threads :
       (stack[t] # <<>> /\ stack'[t] = stack[t]) =>
         \/ (store' = store /\ slot' = slot /\ ~Called("set_storage", t))
         \/ \A k \in Keys :
              LET after == storage_ret(ext_in(slot'[t], store'), k, "Ok") IN
                IF Called("set_storage", t) /\ obs'.key = k
                THEN after = obs'.value
                ELSE after = storage_ret(ext_in(slot[t], store), k, "Ok")
    ]_vars

\* storage(k) has returned a two-byte value written in the scope
C5_Witness ==
  /\ obs.op = "storage" /\ obs.scope # Empty /\ obs.lookup = "Ok"
  /\ Len(obs.ret) >= 2
  /\ Entries >= 2

\* the bytes the capability consulted by the recorded call holds under its key
StoredValue == TestExternalities_storage(store[obs.via], obs.key)

\* C6: within an active scope, read_storage(k, buf) returns the full length
\* of the value stored under k, copies its first min(len(value), len(buf))
\* bytes to the start of buf and leaves the rest of buf unchanged.
C6_ReadStorage ==
  (obs.op = "read_storage" /\ obs.scope # Empty /\ obs.lookup = "Ok") =>
    LET written == min(Len(StoredValue), Len(obs.buf)) IN
      /\ obs.ret = Len(StoredValue)
      /\ Len(obs.value_out) = Len(obs.buf)
      /\ \A i \in 1..Len(obs.buf) :
           obs.value_out[i] = IF i <= written THEN StoredValue[i] ELSE obs.buf[i]

\* a buffer shorter than the stored value: truncated copy, full length returned
C6_Witness ==
  /\ obs.op = "read_storage" /\ obs.scope # Empty /\ obs.lookup = "Ok"
  /\ Len(obs.buf) >= 1 /\ Len(StoredValue) > Len(obs.buf)
  /\ obs.ret > Len(obs.buf)

\* C7: within an active scope, storage_into::<T>(k) returns None when the
\* length of the bytes stored under k differs from size_of::<T>(), and Some
\* of exactly the stored bytes when the lengths are equal.
C7_StorageInto ==
  (obs.op = "storage_into" /\ obs.scope # Empty /\ obs.lookup = "Ok") =>
    IF Len(StoredValue) = obs.size
    THEN obs.ret = Some(StoredValue)
    ELSE obs.ret = None

\* a stored two-byte value decoded as a two-byte T
C7_Witness ==
  /\ obs.op = "storage_into" /\ obs.scope # Empty /\ obs.lookup = "Ok"
  /\ obs.size >= 2 /\ obs.ret = Some(StoredValue)

\* what storage(k) returns in the state and for the lookup of the recorded call
StorageThere == storage_ret(ext_in(obs.via, store), obs.key, obs.lookup)

\* C8 as stated: in every slot state and for every size_of::<T>(), 0
\* included, storage_into::<T>(k) returns a value if and only if the bytes
\* storage(k) returns there have length size_of::<T>().
C8_Original ==
  obs.op = "storage_into" =>
    (is_some(obs.ret) <=> Len(StorageThere) = obs.size)

\* C8 amended: storage_into::<T>(k) returns a value if and only if a
\* capability is active, its lookup succeeds and the bytes storage(k) returns
\* have length size_of::<T>(); for size_of::<T>() > 0 this is the stated
\* equivalence in every slot state.
C8_StorageIntoIff ==
  obs.op = "storage_into" =>
    /\ is_some(obs.ret) <=>
         (obs.via # Empty /\ obs.lookup = "Ok" /\ Len(StorageThere) = obs.size)
    /\ obs.size > 0 => (is_some(obs.ret) <=> Len(StorageThere) = obs.size)

\* a zero-sized T decoded with no capability active: None, though storage(k)
\* returns zero bytes
C8_Witness ==
  /\ obs.op = "storage_into" /\ obs.size = 0 /\ obs.via = Empty
  /\ obs.ret = None /\ StorageThere = <<>>

StorageAnswer(o, st) ==
  o.scope # Empty =>
    o.ret = IF o.lookup = "Ok" /\ o.key \in DOMAIN st[o.via]
            THEN st[o.via][o.key] ELSE <<>>

\* C10: storage(k) never fails the caller: within an active scope it returns
\* empty bytes on a lookup error and for an absent key, and otherwise the
\* stored bytes, as a copy that a later set_storage(k, ..) does not alter.
C10_StorageNeverFails ==
  [][\A t \in Threads :
       /\ Called("storage", t) =>
            (panicking' = panicking /\ StorageAnswer(obs', store'))
       /\ (/\ Called("set_storage", t)
           /\ obs.op = "storage" /\ obs.t = t /\ obs.key = obs'.key)
          => obs'.kept = Some(obs.ret)
    ]_vars

\* the caller still holds the bytes it read, after overwriting the key
C10_Witness ==
  /\ obs.op = "set_storage" /\ obs.scope # Empty
  /\ is_some(obs.kept) /\ obs.kept[2] # <<>>
  /\ obs.kept[2] # obs.value
  /\ store[obs.via][obs.key] = obs.value

\* C11: read_storage(k, buf) returns 0 and leaves buf entirely unchanged when
\* no capability is active, when k is absent from the store and when the
\* capability reports a lookup error.
C11_ReadStorageDefaults ==
  (/\ obs.op = "read_storage"
   /\ \/ obs.via = Empty
      \/ obs.lookup = "Err"
      \/ obs.key \notin DOMAIN store[obs.via])
  => (obs.ret = 0 /\ obs.value_out = obs.buf)

\* a lookup error on a key that holds bytes, read into a buffer with room
C11_Witness ==
  /\ obs.op = "read_storage" /\ obs.via # Empty /\ obs.lookup = "Err"
  /\ obs.key \in DOMAIN store[obs.via] /\ store[obs.via][obs.key] # <<>>
  /\ Len(obs.buf) >= 1
  /\ obs.ret = 0 /\ obs.value_out = obs.buf

\* C12: once a with_externalities call entered with an empty slot has exited,
\* by return or by unwinding, the slot is empty again: no capability is
\* reachable, storage returns empty bytes, chain_id returns 0 and set_storage
\* is dropped until the next with_externalities call.  What the accessors
\* return is a function of the slot and the stores, so it is compared on the
\* steps that change one of them.
C12_EmptyAfterExit ==
  [][LET called == obs' # obs
         same == slot' = slot /\ store' = store
     IN /\ (called /\ obs'.op = "with_externalities" /\ obs'.pre = Empty)
             => (obs'.post = Empty /\ slot'[obs'.t] = Empty)
        /\ \A t \in Threads : stack'[t] = <<>> =>
             /\ slot'[t] = Empty
             /\ \/ same
                \/ /\ ext_in(slot'[t], store') = None
                   /\ \A k \in Keys :
                        storage_ret(ext_in(slot'[t], store'), k, "none") = <<>>
                   /\ chain_id_ret(ext_in(slot'[t], store')) = 0
        /\ (called /\ obs'.op = "set_storage" /\ stack[obs'.t] = <<>>)
             => store' = store
    ]_vars

\* the outermost call has unwound, leaving entries in its capability's store
C12_Witness ==
  /\ obs.op = "with_externalities" /\ obs.panicked /\ obs.pre = Empty
  /\ stack[obs.t] = <<>> /\ current(obs.t) = Empty
  /\ store[obs.cap] # EmptyMap

\* C14: ed25519_verify does not touch the slot: what it returns is fixed by
\* its three arguments, whether or not a scope is installed and whatever was
\* stored before, and calling it changes no slot and no store.
C14_VerifyIsPure ==
  [][\A t \in Threads :
       Called("ed25519_verify", t) =>
         /\ obs'.ret = ed25519_verify_primitive(obs'.sig, obs'.msg, obs'.pubkey)
         /\ store' = store /\ slot' = slot
         /\ stack' = stack /\ panicking' = panicking
    ]_vars

\* a signature accepted outside every scope, after writes to a store
C14_Witness ==
  /\ obs.op = "ed25519_verify" /\ obs.scope = Empty /\ obs.ret = TRUE
  /\ slot[obs.t] = Empty
  /\ Entries >= 1

\* C15: while a scope on B runs inside a scope on A, every read is answered
\* by B and every set_storage goes to B only; the store of A (of every outer
\* capability) stays as it is until the inner scope exits.
C15_InnerHidesOuter ==
  [][\A t \in Threads :
       (Len(stack[t]) >= 2 /\ stack'[t] = stack[t]) =>
         LET inner == Head(stack[t]).cap IN
           /\ \A i \in 2..Len(stack[t]) :
                store'[stack[t][i].cap] = store[stack[t][i].cap]
           /\ (obs' # obs /\ obs'.t = t /\ obs'.op \in AccessorOps)
                => obs'.via = inner
           /\ Called("set_storage", t) => store'[inner][obs'.key] = obs'.value
           /\ (Called("storage", t) /\ obs'.lookup = "Ok")
                => obs'.ret = TestExternalities_storage(store'[inner], obs'.key)
    ]_vars

\* a write in the inner scope to a key the outer capability holds differently
C15_Witness ==
  /\ obs.op = "set_storage" /\ Len(stack[obs.t]) = 2
  /\ obs.via = Head(stack[obs.t]).cap
  /\ LET outer == stack[obs.t][2].cap IN
       /\ obs.key \in DOMAIN store[outer]
       /\ store[outer][obs.key] # obs.value
       /\ store[obs.via][obs.key] = obs.value

\* C16: the accessors keep no state between scopes: inside a scope storage(k)
\* returns what the installed capability holds under k now, entering and
\* leaving a scope leaves every store as it is (so earlier writes are seen by
\* a later scope), and an assignment to the store between two scopes
\* (removals included) is what the next scope reads.
C16_NoAccessorState ==
  [][\A t \in Threads :
       /\ (Called("storage", t) /\ obs'.scope # Empty /\ obs'.lookup = "Ok")
            => obs'.ret = TestExternalities_storage(store'[slot'[t]], obs'.key)
       /\ stack'[t] # stack[t] => store' = store
       /\ (obs'.op = "assign" /\ obs'.t = t /\ store' # store) =>
            \A k \in Keys :
              storage_ret(ext_in(obs'.cap, store'), k, "Ok")
                = TestExternalities_storage(store'[obs'.cap], k)
    ]_vars

\* the first read of a scope entered after the store was assigned returns
\* the assigned bytes
C16_Witness ==
  /\ obs.op = "storage" /\ obs.after_assign /\ obs.lookup = "Ok"
  /\ obs.scope # Empty
  /\ obs.ret # <<>> /\ obs.ret = store[obs.via][obs.key]

\* C17: storage, read_storage, storage_into and chain_id leave the slot and
\* every store unchanged in every slot state; set_storage changes at most
\* the store of the active capability and never the slot; the slot changes
\* only when a with_externalities call is entered or left.
C17_Frame ==
  [][LET same_store == store' = store
         same_slot == slot' = slot
         called == obs' # obs
     IN /\ (called /\ obs'.op \in ReadOps) => (same_store /\ same_slot)
        /\ (called /\ obs'.op = "set_storage") =>
             /\ same_slot
             /\ \A c \in Caps : c # slot[obs'.t] => store'[c] = store[c]
        /\ ~same_slot => \A t \in Threads :
                           slot'[t] # slot[t] => stack'[t] # stack[t]
        /\ ~same_store =>
             (obs'.op \in {"set_storage", "assign"} /\ stack' = stack)
    ]_vars

\* a typed read that returned a value inside a scope
C17_Witness ==
  /\ obs.op = "storage_into" /\ obs.scope # Empty
  /\ is_some(obs.ret) /\ obs.size >= 1
  /\ slot[obs.t] = obs.via

\* the capabilities installed by the running with_externalities calls of u
InstalledBy(stk, u) == {stk[u][i].cap : i \in 1..Len(stk[u])}

\* C13: each thread has its own slot: under any interleaving a capability
\* installed on one thread is never the one storage, set_storage or chain_id
\* reach on another thread, and a step of one thread (installing, restoring
\* or any call) never changes the slot of another.
C13_ThreadLocalSlot ==
  [][\A t \in Threads : \A u \in Threads \ {t} :
       /\ (stack'[t] # stack[t] \/ (obs' # obs /\ obs'.t = t))
            => slot'[u] = slot[u]
       /\ (obs' # obs /\ obs'.t = t /\ obs'.op \in AccessorOps)
            => /\ obs'.via \notin InstalledBy(stack, u)
               /\ obs'.via = obs'.scope
       /\ slot'[t] \in Caps => slot'[t] \notin InstalledBy(stack', u)
    ]_vars

\* both threads are inside a scope, each on its own capability, and the
\* second reads its own bytes for a key the first holds differently
C13_Witness ==
  /\ slot["t1"] \in Caps /\ slot["t2"] \in Caps /\ slot["t1"] # slot["t2"]
  /\ obs.op = "storage" /\ obs.t = "t2" /\ obs.via = slot["t2"]
  /\ obs.lookup = "Ok" /\ obs.ret # <<>>
  /\ obs.key \in DOMAIN store[slot["t1"]]
  /\ store[slot["t1"]][obs.key] # obs.ret

====
